---- MODULE Spec2Model ----
(***************************************************************************)
(* A model of etl.py: a single-threaded batch job that loads song metadata *)
(* and user event logs, derives five relations and writes each of them in  *)
(* overwrite mode.  A DataFrame is a finite sequence of rows, a row is a   *)
(* record, and a JSON record that lacks a key is a record without that     *)
(* field.  The SQL texts of sql_queries.py are not part of src/; the four  *)
(* queries are modelled from the specification and are marked as such.     *)
(***************************************************************************)
EXTENDS Integers, Sequences, FiniteSets, TLC

(* ------------------------------ bounds -------------------------------- *)
MaxMeta == 2
MaxEvents == 2
MaxRuns == 2

(* ------------------------- values and helpers ------------------------- *)
NULL == "null"

\* the rows of s whose index is in I, in order
Pick(s, I) ==
  LET F[k \in 0..Len(s)] ==
        IF k = 0 THEN <<>>
        ELSE IF k \in I THEN Append(F[k-1], s[k]) ELSE F[k-1]
  IN F[Len(s)]

\* the concatenation of f[1], ..., f[n]
Concat(f, n) ==
  LET F[k \in 0..n] == IF k = 0 THEN <<>> ELSE F[k-1] \o f[k]
  IN F[n]

Range(s) == {s[i] : i \in 1..Len(s)}

\* SQL equality: never true of a NULL
SqlEq(a, b) == a # NULL /\ b # NULL /\ a = b

(* ----------------------------- the inputs ----------------------------- *)
\* Song metadata records.  mFull is the scenario record of the
\* specification with the remaining selected columns present; mLit is the
\* scenario record exactly as listed (no title, no location columns).
mFull == [song_id |-> "S1", title |-> "Bar", artist_id |-> "A1", artist_name |-> "Foo",
          year |-> 2000, duration |-> 200, artist_location |-> "L1",
          artist_latitude |-> "1.0", artist_longitude |-> "2.0"]
mLit  == [song_id |-> "S1", artist_id |-> "A1", artist_name |-> "Foo",
          year |-> 2000, duration |-> 200]
mOther == [song_id |-> "S2", title |-> "Bar", artist_id |-> "A2", artist_name |-> "Foo",
          year |-> 2001, duration |-> 180, artist_location |-> "L2",
          artist_latitude |-> "3.0", artist_longitude |-> "4.0"]
MetaPool == {mFull, mLit, mOther}

Event(page, userId, level, ts, artist, song) ==
  [page |-> page, userId |-> userId, firstName |-> "F" \o userId, lastName |-> "L" \o userId,
   gender |-> "F", level |-> level, ts |-> ts, artist |-> artist, song |-> song,
   length |-> "200.0", location |-> "Loc", sessionId |-> "7", userAgent |-> "UA"]

\* eScenario is the scenario event of the specification with the remaining
\* selected columns present
eScenario == Event("NextSong", "1", "free", 1000000, "Foo", "Bar")
eHome     == Event("Home", "2", "paid", 2500, "Foo", "Bar")
eNeg      == Event("NextSong", "1", "paid", -1500, "Foo", "Bar")
eMiss     == Event("NextSong", "2", "free", 86400999, "Zed", "Nope")
\* the scenario event exactly as listed (only these six keys)
eLit      == [page |-> "NextSong", artist |-> "Foo", song |-> "Bar", ts |-> 1000000,
              userId |-> "1", level |-> "free"]
EventPool == {eScenario, eLit, eHome, eNeg, eMiss}

SeqsUpTo(S, n) == UNION {[1..k -> S] : k \in 0..n}

ConfigKeys == {"AWS_ACCESS_KEY_ID", "AWS_SECRET_ACCESS_KEY"}
Paths == {"songs", "artists", "users", "time", "songplays"}

VARIABLES pc, fault, executed, runs, config, environ, spark,
          metadata, events, df, views,
          song_df, artist_df, songplay_df, user_df, time_df,
          out, prior

vars == <<pc, fault, executed, runs, config, environ, spark, metadata, events, df, views,
          song_df, artist_df, songplay_df, user_df, time_df, out, prior>>

(* ------------------------ DataFrame primitives ------------------------ *)
\* the columns spark.read.json infers: every key of every record
Schema(d) == UNION {DOMAIN d[i] : i \in 1..Len(d)}

\* df.select(cols): a key a record lacks reads as NULL
SelectRow(r, cols) == [c \in cols |-> IF c \in DOMAIN r THEN r[c] ELSE NULL]
Select(d, cols) == [i \in 1..Len(d) |-> SelectRow(d[i], cols)]

\* df.dropDuplicates(): one row per distinct full row
dropDuplicates(d) == Pick(d, {i \in 1..Len(d) : \A j \in 1..(i-1) : d[j] # d[i]})

\* a faulty variant: every row gets the same id
constant_id(i) == 0
\* monotonically_increasing_id() on one partition: the row position from 0
monotonically_increasing_id(i) == i - 1

\* a row with one more column
WithCol(r, c, v) == [k \in DOMAIN r \cup {c} |-> IF k = c THEN v ELSE r[k]]
Drop(r, cols) == [k \in DOMAIN r \ cols |-> r[k]]

\* df.withColumn("id", monotonically_increasing_id())
WithId(d, c) == [i \in 1..Len(d) |-> WithCol(d[i], c, monotonically_increasing_id(i))]

(* ------------------------- process_song_data -------------------------- *)
song_columns == {"song_id", "title", "artist_id", "artist_name", "year", "duration"}
artist_columns == {"artist_id", "artist_name", "artist_location", "artist_latitude",
                   "artist_longitude"}

SongDF(d) == dropDuplicates(Select(d, song_columns))
ArtistSparkify(d) == WithId(Select(d, artist_columns), "id")

\* sql_queries.artist_select_distinct: one row per artist_id, the one with
\* the least surrogate id; the id is not selected
artist_select_distinct(sparkify) ==
  LET keep == {i \in 1..Len(sparkify) :
                 \A j \in 1..Len(sparkify) :
                    sparkify[j].artist_id = sparkify[i].artist_id
                       => sparkify[i].id <= sparkify[j].id}
      row(r) == [artist_id |-> r.artist_id, artist_name |-> r.artist_name,
                 location |-> r.artist_location, latitude |-> r.artist_latitude,
                 longitude |-> r.artist_longitude]
      kept == Pick(sparkify, keep)
  IN [i \in 1..Len(kept) |-> row(kept[i])]

(* -------------------------- process_log_data -------------------------- *)
columns == {"userId", "firstName", "lastName", "gender", "level", "ts", "artist", "song",
            "length", "location", "sessionId", "userAgent"}

\* a faulty variant: the page filter is missing
WhereAnyPage(d) == d
\* .where(df.page == "NextSong")
WhereNextSong(d) == Pick(d, {i \in 1..Len(d) : "page" \in DOMAIN d[i] /\ d[i].page = "NextSong"})

LogDF(d) == WithId(Select(WhereNextSong(d), columns), "id")

\* sql_queries.get_songplay_log_data: the columns of the event view the
\* fact needs
get_songplay_log_data(sparkify) ==
  Select(sparkify, {"id", "ts", "userId", "level", "song", "artist", "sessionId",
                    "location", "userAgent"})

\* sql_queries.aggregate_songplay_data: the events of 'logs' joined to
\* 'songs' on the song title and to 'artists' on the artist name, exact match
aggregate_songplay_data(logs, songs, artists) ==
  LET fact(l, s, a) == [ts |-> l.ts, userId |-> l.userId, level |-> l.level,
                        song_id |-> s.song_id, artist_id |-> a.artist_id,
                        sessionId |-> l.sessionId, location |-> l.location,
                        userAgent |-> l.userAgent]
      withArtists(l, s) ==
        LET hit == Pick(artists, {k \in 1..Len(artists) : SqlEq(l.artist, artists[k].artist_name)})
        IN [k \in 1..Len(hit) |-> fact(l, s, hit[k])]
      withSongs(l) ==
        LET hit == Pick(songs, {k \in 1..Len(songs) : SqlEq(l.song, songs[k].title)})
        IN Concat([k \in 1..Len(hit) |-> withArtists(l, hit[k])], Len(hit))
  IN Concat([i \in 1..Len(logs) |-> withSongs(logs[i])], Len(logs))

\* a faulty variant: the divisor is off by a factor of ten
centi_start_time(x) == IF x >= 0 THEN x \div 100 ELSE -((-x) \div 100)
\* udf(lambda x: int(int(x) / 1000)): int() truncates the quotient toward
\* zero (the quotient is exact for |x| < 2^53)
get_start_time(x) == IF x >= 0 THEN x \div 1000 ELSE -((-x) \div 1000)

(* the calendar of datetime.fromtimestamp and of the column functions      *)
(* year, month, dayofmonth, hour, weekofyear and date_format 'E', in UTC   *)
DaysFromCivil(y, m, d) ==
  LET yy  == IF m <= 2 THEN y - 1 ELSE y
      era == yy \div 400
      yoe == yy - era * 400
      mp  == IF m > 2 THEN m - 3 ELSE m + 9
      doy == (153 * mp + 2) \div 5 + d - 1
      doe == yoe * 365 + yoe \div 4 - yoe \div 100 + doy
  IN era * 146097 + doe - 719468

CivilFromDays(days) ==
  LET z   == days + 719468
      era == z \div 146097
      doe == z - era * 146097
      yoe == (doe - doe \div 1460 + doe \div 36524 - doe \div 146096) \div 365
      doy == doe - (365 * yoe + yoe \div 4 - yoe \div 100)
      mp  == (5 * doy + 2) \div 153
      d   == doy - (153 * mp + 2) \div 5 + 1
      m   == IF mp < 10 THEN mp + 3 ELSE mp - 9
      y   == yoe + era * 400 + (IF m <= 2 THEN 1 ELSE 0)
  IN [year |-> y, month |-> m, day |-> d]

\* whether the ISO year y has 53 weeks
LongYear(y) ==
  LET P(n) == (n + n \div 4 - n \div 100 + n \div 400) % 7
  IN P(y) = 4 \/ P(y - 1) = 3

WeekDays == <<"Mon", "Tue", "Wed", "Thu", "Fri", "Sat", "Sun">>

\* get_datetime = udf(lambda x: str(datetime.fromtimestamp(int(x)))), read
\* back by the column functions
get_datetime(start_time) ==
  LET days == start_time \div 86400
      secs == start_time % 86400
      c    == CivilFromDays(days)
      wd   == ((days + 3) % 7) + 1
      doy  == days - DaysFromCivil(c.year, 1, 1) + 1
      w    == (doy - wd + 10) \div 7
      week == IF w < 1 THEN (IF LongYear(c.year - 1) THEN 53 ELSE 52)
              ELSE IF w = 53 /\ ~LongYear(c.year) THEN 1 ELSE w
  IN [hour |-> secs \div 3600, day |-> c.day, week |-> week, month |-> c.month,
      year |-> c.year, weekday |-> WeekDays[wd]]

\* spark.sql(aggregate_songplay_data).withColumn('start_time', ...)
\*   .withColumn('songplay_id', ...).withColumn("datetime", ...)
\*   .withColumn("year", ...).withColumn("month", ...).drop('datetime', 'ts')
SongplayRow(r, i) ==
  LET st == get_start_time(r.ts)
      dt == get_datetime(st)
  IN Drop(WithCol(WithCol(WithCol(WithCol(r, "start_time", st),
                                  "songplay_id", monotonically_increasing_id(i)),
                          "year", dt.year),
                  "month", dt.month),
          {"ts"})
SongplayDF(agg) == [i \in 1..Len(agg) |-> SongplayRow(agg[i], i)]

\* sql_queries.user_select_distinct: one row per userId of the event view,
\* the one seen last (the greatest surrogate id), so its level wins
user_select_distinct(sparkify) ==
  LET keep == {i \in 1..Len(sparkify) :
                 \A j \in 1..Len(sparkify) :
                    sparkify[j].userId = sparkify[i].userId
                       => sparkify[j].id <= sparkify[i].id}
  IN Select(Pick(sparkify, keep), {"userId", "firstName", "lastName", "gender", "level"})

\* songplay_df.select('start_time').dropDuplicates() exploded into its parts
TimeDF(songplays) ==
  LET starts == dropDuplicates(Select(songplays, {"start_time"}))
  IN [i \in 1..Len(starts) |-> get_datetime(starts[i].start_time)]

(* ------------------------------- writes ------------------------------- *)
\* a faulty variant: append mode
save_append(old, new) == old \o new
\* .write.format("parquet").mode("overwrite").save(path): what the path
\* holds afterwards
save(old, new) == new

\* what the path may hold when save raises: overwrite deletes the path
\* before it writes, so the old contents, nothing, or the rows written so far
FailedSave(old, new) == {old} \cup {SubSeq(new, 1, k) : k \in 0..Len(new)}

\* createOrReplaceTempView(name): the views are a function on the names in use
createOrReplaceTempView(vs, name, d) ==
  [k \in DOMAIN vs \cup {name} |-> IF k = name THEN d ELSE vs[k]]

(* --------------------------- the control flow -------------------------- *)
process_song_data_steps == <<"song_load", "song_transform", "write_songs", "write_artists">>

\* a faulty variant: the time relation is written before the users
process_log_data_steps_time_first ==
  <<"log_load", "log_transform", "write_time", "write_users", "write_songplays">>
process_log_data_steps ==
  <<"log_load", "log_transform", "write_users", "write_time", "write_songplays">>

\* a faulty variant: the event phase is called before the metadata phase
main_steps_log_first == <<"config", "session">> \o process_log_data_steps \o process_song_data_steps
\* main: the config, the session, process_song_data, process_log_data
main_steps == <<"config", "session">> \o process_song_data_steps \o process_log_data_steps

StepIndex(step) == CHOOSE i \in 1..Len(main_steps) : main_steps[i] = step
NextPc(step) ==
  IF StepIndex(step) = Len(main_steps) THEN "done" ELSE main_steps[StepIndex(step) + 1]

\* a faulty variant: the failing step is tried again
retry_on_fault(step) == step
\* no try/except anywhere: an exception ends the process
OnFault(step) == "failed"

WriteSteps == {"write_songs", "write_artists", "write_users", "write_time", "write_songplays"}
PathOf(step) ==
  CASE step = "write_songs" -> "songs"
    [] step = "write_artists" -> "artists"
    [] step = "write_users" -> "users"
    [] step = "write_time" -> "time"
    [] step = "write_songplays" -> "songplays"

\* the DataFrame each write saves
LocalDF(path) ==
  CASE path = "songs" -> song_df
    [] path = "artists" -> artist_df
    [] path = "users" -> user_df
    [] path = "time" -> time_df
    [] path = "songplays" -> songplay_df

Advance(step) == /\ pc = step
                 /\ pc' = NextPc(step)
                 /\ executed' = Append(executed, step)
                 /\ UNCHANGED <<fault, runs, config, metadata, events, prior>>

(* ------------------------------- actions ------------------------------ *)
FullConfig == [k \in ConfigKeys |-> "secret"]
PartConfig == [k \in {"AWS_ACCESS_KEY_ID"} |-> "secret"]
StaleRow == [song_id |-> "S0", userId |-> "0", start_time |-> 0]
NoLocal == <<>>

Init ==
  /\ pc = main_steps[1]
  /\ fault = "none"
  /\ executed = <<>>
  /\ runs = 1
  /\ config \in {FullConfig, PartConfig}
  /\ environ = <<>>
  /\ spark = FALSE
  /\ metadata \in SeqsUpTo(MetaPool, MaxMeta)
  /\ events \in SeqsUpTo(EventPool, MaxEvents)
  /\ df = NoLocal
  /\ views = <<>>
  /\ song_df = NoLocal /\ artist_df = NoLocal
  /\ songplay_df = NoLocal /\ user_df = NoLocal /\ time_df = NoLocal
  /\ out \in {[p \in Paths |-> <<>>], [p \in Paths |-> <<StaleRow>>]}
  /\ prior = out

\* main, lines 128-131: a missing key raises KeyError
Config ==
  /\ Advance("config")
  /\ ConfigKeys \subseteq DOMAIN config
  /\ environ' = [k \in ConfigKeys |-> config[k]]
  /\ UNCHANGED <<spark, df, views, song_df, artist_df, songplay_df, user_df, time_df, out>>

Session ==
  /\ Advance("session")
  /\ spark' = TRUE
  /\ UNCHANGED <<environ, df, views, song_df, artist_df, songplay_df, user_df, time_df, out>>

SongLoad ==
  /\ Advance("song_load")
  /\ df' = metadata
  /\ UNCHANGED <<environ, spark, views, song_df, artist_df, songplay_df, user_df, time_df, out>>

\* lines 49-62: select raises on a column the schema lacks
SongTransform ==
  /\ Advance("song_transform")
  /\ song_columns \cup artist_columns \subseteq Schema(df)
  /\ LET sparkify == ArtistSparkify(df)
         artists  == artist_select_distinct(sparkify)
         songs    == SongDF(df)
     IN /\ song_df' = songs
        /\ artist_df' = artists
        /\ views' = createOrReplaceTempView(
                      createOrReplaceTempView(
                        createOrReplaceTempView(views, "sparkify", sparkify),
                        "artists", artists),
                      "songs", songs)
  /\ UNCHANGED <<environ, spark, df, songplay_df, user_df, time_df, out>>

Write(step) ==
  /\ Advance(step)
  /\ out' = [out EXCEPT ![PathOf(step)] = save(@, LocalDF(PathOf(step)))]
  /\ UNCHANGED <<environ, spark, df, views, song_df, artist_df, songplay_df, user_df, time_df>>

WriteSongs == Write("write_songs")
WriteArtists == Write("write_artists")

LogLoad ==
  /\ Advance("log_load")
  /\ df' = events
  /\ UNCHANGED <<environ, spark, views, song_df, artist_df, songplay_df, user_df, time_df, out>>

\* lines 83-109: select and df.page raise on a column the schema lacks,
\* spark.sql raises on a view that does not exist
LogTransform ==
  /\ Advance("log_transform")
  /\ columns \cup {"page"} \subseteq Schema(df)
  /\ {"songs", "artists"} \subseteq DOMAIN views
  /\ LET log_df == LogDF(df)
         v1     == createOrReplaceTempView(views, "sparkify", log_df)
         v2     == createOrReplaceTempView(v1, "logs", get_songplay_log_data(v1["sparkify"]))
         facts  == SongplayDF(aggregate_songplay_data(v2["logs"], v2["songs"], v2["artists"]))
     IN /\ views' = v2
        /\ songplay_df' = facts
        /\ user_df' = user_select_distinct(v2["sparkify"])
        /\ time_df' = TimeDF(facts)
  /\ UNCHANGED <<environ, spark, df, song_df, artist_df, out>>

WriteUsers == Write("write_users")
WriteTime == Write("write_time")
WriteSongplays == Write("write_songplays")

\* any step may raise; the exception is not caught
Fault ==
  /\ pc \in Range(main_steps)
  /\ fault = "none"
  /\ fault' = pc
  /\ pc' = OnFault(pc)
  /\ IF pc \in WriteSteps
       THEN \E c \in FailedSave(out[PathOf(pc)], LocalDF(PathOf(pc))) :
               out' = [out EXCEPT ![PathOf(pc)] = c]
       ELSE UNCHANGED out
  /\ UNCHANGED <<executed, runs, config, environ, spark, metadata, events, df, views,
                 song_df, artist_df, songplay_df, user_df, time_df, prior>>

\* the script is started again on the same input after a run that succeeded
Rerun ==
  /\ pc = "done"
  /\ runs < MaxRuns
  /\ runs' = runs + 1
  /\ pc' = main_steps[1]
  /\ executed' = <<>>
  /\ environ' = <<>>
  /\ spark' = FALSE
  /\ df' = NoLocal
  /\ views' = <<>>
  /\ song_df' = NoLocal /\ artist_df' = NoLocal
  /\ songplay_df' = NoLocal /\ user_df' = NoLocal /\ time_df' = NoLocal
  /\ prior' = out
  /\ UNCHANGED <<fault, config, metadata, events, out>>

Next ==
  \/ Config \/ Session
  \/ SongLoad \/ SongTransform \/ WriteSongs \/ WriteArtists
  \/ LogLoad \/ LogTransform \/ WriteUsers \/ WriteTime \/ WriteSongplays
  \/ Fault
  \/ Rerun

Spec == Init /\ [][Next]_vars

(* ====================================================================== *)
(*                              properties                                *)
(* ====================================================================== *)
Executed(step) == step \in Range(executed)

\* the linear order of the job's steps
LinearOrder == <<"config", "session", "song_load", "song_transform", "write_songs",
                 "write_artists", "log_load", "log_transform", "write_users",
                 "write_time", "write_songplays">>
OrderIndex(step) == CHOOSE i \in 1..Len(LinearOrder) : LinearOrder[i] = step

\* C1: whenever the event phase is running or has run a step, the metadata
\* phase has run to completion: the views 'songs' and 'artists' exist and
\* the 'songs' and 'artists' outputs have been written.
C1_MetadataBeforeEvents ==
  (pc \in Range(process_log_data_steps) \/ \E s \in Range(process_log_data_steps) : Executed(s))
    => /\ \A s \in Range(process_song_data_steps) : Executed(s)
       /\ {"songs", "artists"} \subseteq DOMAIN views
       /\ views["songs"] = song_df /\ views["artists"] = artist_df
       /\ out["songs"] = song_df /\ out["artists"] = artist_df

C1_Witness ==
  /\ Executed("log_transform")
  /\ Len(songplay_df) > 0
  /\ Len(views["songs"]) > 0 /\ Len(views["artists"]) > 0

\* the rows the fact query returns, in the order of the facts derived from them
Joined == aggregate_songplay_data(views["logs"], views["songs"], views["artists"])

\* C2: every written songplay fact has start_time = floor(ts / 1000) of the
\* event it was derived from, for every integer ts, negative ones included.
C2_StartTimeIsFloor ==
  Executed("write_songplays")
    => /\ Len(out["songplays"]) = Len(Joined)
       /\ \A i \in 1..Len(Joined) : out["songplays"][i].start_time = Joined[i].ts \div 1000

\* C3: no two rows of the written songs relation share a song_id.
C3_SongIdUnique ==
  Executed("write_songs")
    => \A i, j \in 1..Len(out["songs"]) :
          out["songs"][i].song_id = out["songs"][j].song_id => i = j

\* the artist row a metadata record gives
ArtistRowOf(m) ==
  LET r == SelectRow(m, artist_columns)
  IN [artist_id |-> r.artist_id, artist_name |-> r.artist_name, location |-> r.artist_location,
      latitude |-> r.artist_latitude, longitude |-> r.artist_longitude]

\* C4: the written artists relation holds exactly one row per distinct
\* artist_id of the metadata, and that row comes from the first metadata
\* record with that artist_id.
C4_ArtistIdUniqueFirst ==
  Executed("write_artists")
    => LET ids == {metadata[i].artist_id : i \in 1..Len(metadata)}
           first(a) == CHOOSE i \in 1..Len(metadata) :
                          /\ metadata[i].artist_id = a
                          /\ \A j \in 1..(i-1) : metadata[j].artist_id # a
       IN /\ Len(out["artists"]) = Cardinality(ids)
          /\ \A a \in ids :
               \E k \in 1..Len(out["artists"]) :
                  /\ out["artists"][k] = ArtistRowOf(metadata[first(a)])
                  /\ \A n \in 1..Len(out["artists"]) :
                        out["artists"][n].artist_id = a => n = k

C4_Witness ==
  /\ Executed("write_artists")
  /\ Len(metadata) = 2
  /\ metadata[1].artist_id = metadata[2].artist_id
  /\ ArtistRowOf(metadata[1]) # ArtistRowOf(metadata[2])

IsNextSong(e) == "page" \in DOMAIN e /\ e.page = "NextSong"
NextSongEvents == Pick(events, {i \in 1..Len(events) : IsNextSong(events[i])})

\* C5: every row of the written users, time and songplays outputs comes
\* from a NextSong event, and the outputs are those of the NextSong events
\* alone: an event with another page adds no row.
C5_OnlyNextSong ==
  /\ Executed("write_users")
       => /\ \A k \in 1..Len(out["users"]) :
                \E i \in 1..Len(events) :
                   /\ IsNextSong(events[i])
                   /\ out["users"][k] =
                        SelectRow(events[i], {"userId", "firstName", "lastName", "gender", "level"})
          /\ Schema(NextSongEvents) = Schema(events)
                => out["users"] = user_select_distinct(LogDF(NextSongEvents))
  /\ Executed("write_time")
       => \A k \in 1..Len(out["time"]) :
             \E i \in 1..Len(events) :
                /\ IsNextSong(events[i])
                /\ out["time"][k] = get_datetime(get_start_time(events[i].ts))
  /\ Executed("write_songplays")
       => /\ \A k \in 1..Len(out["songplays"]) :
                \E i \in 1..Len(events) :
                   /\ IsNextSong(events[i])
                   /\ out["songplays"][k].userId = events[i].userId
                   /\ out["songplays"][k].level = events[i].level
                   /\ out["songplays"][k].start_time = get_start_time(events[i].ts)
          /\ Schema(NextSongEvents) = Schema(events)
                => out["songplays"] =
                     SongplayDF(aggregate_songplay_data(
                        get_songplay_log_data(LogDF(NextSongEvents)), song_df, artist_df))

C5_Witness ==
  /\ Executed("write_songplays")
  /\ \E i \in 1..Len(events) : ~IsNextSong(events[i])
  /\ Len(out["songplays"]) > 0 /\ Len(out["users"]) > 0 /\ Len(out["time"]) > 0

\* C6: after a run that succeeded, every output path holds exactly the
\* relation that run produced, whatever the path held before, and a second
\* run on the same input leaves every path as the first run left it.
C6_OverwriteIdempotent ==
  pc = "done"
    => /\ \A p \in Paths : out[p] = LocalDF(p)
       /\ runs > 1 => out = prior

C6_Witness ==
  /\ pc = "done"
  /\ runs = 2
  /\ \A p \in Paths : Len(out[p]) > 0

\* C7: once a step has raised, the process is over: the exception is not
\* handled, the failing step is not tried again, exactly the steps before
\* it in the linear order have been executed, and nothing changes any more.
C7_FaultTerminates ==
  [][fault # "none"
       => /\ pc = "failed"
          /\ executed = SubSeq(LinearOrder, 1, OrderIndex(fault) - 1)
          /\ UNCHANGED vars]_vars

C7_Witness ==
  /\ pc = "failed"
  /\ fault = "write_users"
  /\ runs = 1

\* the scenario's results: exactly one songplay fact, with start_time 1000,
\* and exactly one user row, for userId "1" with level "free"
ScenarioResult ==
  /\ Len(out["songplays"]) = 1
  /\ out["songplays"][1].start_time = 1000
  /\ Len(out["users"]) = 1
  /\ out["users"][1].userId = "1"
  /\ out["users"][1].level = "free"

\* whether the selects of a transform step find their columns
TransformResolves ==
  /\ pc = "song_transform" => song_columns \cup artist_columns \subseteq Schema(df)
  /\ pc = "log_transform" => columns \cup {"page"} \subseteq Schema(df)

\* C8 as stated: with the one metadata record and the one event exactly as
\* the scenario lists them, no transform raises and a finished run has
\* produced the scenario's results.
C8_ScenarioAsListed ==
  (metadata = <<mLit>> /\ events = <<eLit>>)
    => /\ TransformResolves
       /\ pc = "done" => ScenarioResult

\* C8 amended: with the scenario's metadata record carrying title "Bar" and
\* the artist location columns, and the scenario's event carrying the other
\* selected event columns, no transform raises and a finished run has
\* produced the scenario's results.
C8_ScenarioComplete ==
  (metadata = <<mFull>> /\ events = <<eScenario>>)
    => /\ TransformResolves
       /\ pc = "done" => ScenarioResult

C8_Witness ==
  /\ metadata = <<mFull>> /\ events = <<eScenario>>
  /\ pc = "done"
  /\ ScenarioResult

\* C9 as stated: the written songplays relation has exactly one row per
\* NextSong event, matched or not.
C9_OneFactPerNextSong ==
  Executed("write_songplays") => Len(out["songplays"]) = Len(NextSongEvents)

\* the matches of the fact join: a NextSong event, a songs row with its song
\* title and an artists row with its artist name
Matches ==
  {t \in (1..Len(events)) \X (1..Len(song_df)) \X (1..Len(artist_df)) :
     /\ IsNextSong(events[t[1]])
     /\ SqlEq(events[t[1]].song, song_df[t[2]].title)
     /\ SqlEq(events[t[1]].artist, artist_df[t[3]].artist_name)}

\* C9 amended: the written songplays relation has exactly one row per match
\* of a NextSong event with a songs row on the title and an artists row on
\* the artist name, and every row carries the ids of such a match: an event
\* without a match yields no fact, one with several matches yields several.
C9_OneFactPerMatch ==
  Executed("write_songplays")
    => /\ Len(out["songplays"]) = Cardinality(Matches)
       /\ \A k \in 1..Len(out["songplays"]) :
            \E t \in Matches :
               /\ out["songplays"][k].userId = events[t[1]].userId
               /\ out["songplays"][k].song_id = song_df[t[2]].song_id
               /\ out["songplays"][k].artist_id = artist_df[t[3]].artist_id
       /\ \A k, n \in 1..Len(out["songplays"]) :
            out["songplays"][k].songplay_id = out["songplays"][n].songplay_id => k = n

C9_Witness ==
  /\ Executed("write_songplays")
  /\ Len(NextSongEvents) = 2
  /\ Cardinality(Matches) \notin {0, 2}

\* the claimed order of the five writes
WriteOrder == <<"write_songs", "write_artists", "write_users", "write_time", "write_songplays">>

\* C10 as stated: after a failure every output before the failing step in
\* the order songs, artists, users, time, songplays holds the run's
\* relation, and every output at or after it holds what it held before the
\* run.
C10_FailedWriteKeepsOld ==
  pc = "failed"
    => \A i \in 1..Len(WriteOrder) :
          LET p == PathOf(WriteOrder[i])
          IN IF OrderIndex(WriteOrder[i]) < OrderIndex(fault)
               THEN out[p] = LocalDF(p)
               ELSE out[p] = prior[p]

\* C10 amended: after a failure every output before the failing step in
\* the order songs, artists, users, time, songplays holds the run's
\* relation and every output after it holds what it held before the run;
\* the output whose write failed holds its old contents or a prefix of the
\* new rows, possibly none.
C10_PartialOutputs ==
  pc = "failed"
    => \A i \in 1..Len(WriteOrder) :
          LET p == PathOf(WriteOrder[i])
          IN CASE OrderIndex(WriteOrder[i]) < OrderIndex(fault) -> out[p] = LocalDF(p)
               [] OrderIndex(WriteOrder[i]) > OrderIndex(fault) -> out[p] = prior[p]
               [] OTHER -> \/ out[p] = prior[p]
                           \/ \E k \in 0..Len(LocalDF(p)) : out[p] = SubSeq(LocalDF(p), 1, k)

C10_Witness ==
  /\ pc = "failed"
  /\ fault = "write_users"
  /\ out["songs"] # prior["songs"] /\ out["artists"] # prior["artists"]
  /\ out["users"] # prior["users"]
  /\ Len(songplay_df) > 0 /\ out["songplays"] = prior["songplays"]

====
